---- MODULE Spec2Model ----
(***************************************************************************)
(* Resonance voice-to-text: the hotkey-driven press / record / transcribe  *)
(* / inject orchestration of src/main.py together with HotkeyManager,      *)
(* AudioRecorder and Transcriber, as a state machine.                      *)
(*                                                                         *)
(* Execution contexts:                                                     *)
(*   - the pynput listener thread runs on_key_press / on_key_release;      *)
(*   - every hotkey callback runs on its own threading.Thread              *)
(*     (on_hotkey_press, on_hotkey_release);                               *)
(*   - the sounddevice callback puts chunks in audio_queue;                *)
(*   - one QThread per transcription runs TranscriptionWorker.run;         *)
(*   - the Qt main thread runs the slots connected to the worker signals   *)
(*     (in connection order) and the QTimer.singleShot callbacks.          *)
(* Timers are untimed: an armed timer fires at some later step.            *)
(***************************************************************************)
EXTENDS Integers, Sequences, FiniteSets, TLC

\* ---------------------------------------------------------------- bounds
\* number of hotkey press callbacks the user triggers in one run
MaxSessions == 2
\* number of chunks the capture callback delivers into one queue (those that
\* the level meter holds included)
MaxChunks == 1
\* length of a text handed to the typer, in words
MaxLen == 2
\* canonical words in the dictionary editor, and variations of one word
MaxWords == 2
MaxVariants == 2
\* captures that the dialogs start in one run
MaxDialogs == 1
\* number of change_model calls in one run
MaxChanges == 2

\* ------------------------------------------------------------- constants
\* keys the listener can report: both sides of the two modifiers, the letter
\* of the combination and an unrelated letter
Keys == {"ctrl_l", "ctrl_r", "alt_l", "alt_r", "r", "x"}
\* the default combination "ctrl+alt+r", split at '+'
ConfigHotkey == <<"ctrl", "alt", "r">>
\* the single-key combination used where the session pipeline is explored
SessionHotkey == <<"r">>
SessionKeys == {"r"}

WorkerIds == 1..MaxSessions
None == 0

VARIABLES
    \* HotkeyManager
    listener, hotkey_combo, is_pressed, current_keys,
    \* callback threads spawned by HotkeyManager, by position
    pressNew, pressMid, releaseNew,
    \* AudioRecorder
    recording, stream, live, audio_queue, capture,
    \* Transcriber
    model,
    \* VTTApplication
    transcription_thread, transcription_worker,
    wstate, quitReq, waudio,
    events, cleanupTimers, watchdogTimers,
    \* SystemTrayIcon: state last shown, and the notification raised by the
    \* last handler that called the tray
    tray, notified,
    \* observation: the last handler that called the tray and its branch, the
    \* captures refused as busy, the presses so far, and whether the current
    \* capture began while a transcription was in flight
    lastOp, dropped, sessions, captureBusy,
    \* the other users of the shared AudioRecorder: AudioLevelMeterDialog
    \* .is_recording and the chunks update_level holds, DictionaryDialog
    \* ._is_recording, the captures that a dialog started, and the captures of
    \* the hotkey whose chunks a dialog drained or dropped
    meter_is_recording, meter_temp, learn_is_recording, foreign, stolen,
    \* HotkeyManager.register_hotkey: the string last passed (split at '+'),
    \* and whether that call raised ValueError
    hotkey_string, raised,
    \* whether on_press_callback and on_release_callback are set
    callbacks,
    \* the keyboard.Listener threads started and not stopped
    active_listeners,
    \* KeyboardTyper: the text at hand (the engine's output), the text passed
    \* to type_text, the delivery mode, the keys simulated so far, the
    \* clipboard, the calls of paste_from_clipboard, the value returned, whether
    \* controller.type raised, what the paste returned and the method called
    transcript, typer_text, use_clipboard, keystrokes, clipboard, pastes, result,
    typing_raised, paste_result, typer_op,
    \* ConfigManager: the settings file, self.config, whether load has run;
    \* the dictionary section of the configuration
    config_file, config, config_loaded, dictionary_enabled, replacements,
    \* the content of the class attribute DEFAULT_CONFIG now, and the sections
    \* of self.config that are the very dict objects of the class attribute
    class_defaults, aliased,
    \* DictionaryDialog: whether the dialog exists, self._data and the word
    \* selected in word_list ("" when none is)
    dialog, data, current,
    \* Transcriber: self.model_size, the size the model object was built with,
    \* self.loading, the holder of self._lock, where the worker thread (in
    \* transcribe) and the main thread (in change_model) stand, the model the
    \* last inference call ran on, models constructed, change_model calls
    model_size, model_built, loading, lock, tpc, inference, constructions, changes

hotkeyVars == <<listener, hotkey_combo, is_pressed, current_keys>>
threadVars == <<pressNew, pressMid, releaseNew>>
recorderVars == <<recording, stream, live, audio_queue, capture>>
workerVars == <<transcription_thread, transcription_worker, wstate, quitReq,
                waudio>>
loopVars == <<events, cleanupTimers, watchdogTimers>>
uiVars == <<tray, notified, lastOp, dropped>>
obsVars == <<sessions, captureBusy>>
sharedVars == <<meter_is_recording, meter_temp, learn_is_recording, foreign,
                stolen>>
registerVars == <<hotkey_string, raised, callbacks, active_listeners>>
typerVars == <<transcript, typer_text, use_clipboard, keystrokes, clipboard,
               pastes, result, typing_raised, paste_result, typer_op>>
configVars == <<config_file, config, config_loaded, dictionary_enabled,
                replacements, class_defaults, aliased>>
dialogVars == <<dialog, data, current>>
transcriberVars == <<model_size, model_built, loading, lock, tpc, inference,
                     constructions, changes>>
\* what the session pipeline leaves alone
sideVars == <<sharedVars, registerVars, typerVars, configVars, dialogVars,
             transcriberVars>>
\* the session pipeline
sessionVars == <<hotkeyVars, threadVars, recorderVars, model, workerVars,
                 loopVars, uiVars, obsVars>>
vars == <<sessionVars, sideVars>>

\* ========================================================= HotkeyManager

\* one part of the combination string -> the keys it stands for
PartKeys(part) ==
    IF part \in {"ctrl", "control"} THEN {"ctrl_l", "ctrl_r"}
    ELSE IF part = "alt" THEN {"alt_l", "alt_r"}
    ELSE IF part = "shift" THEN {"shift_l", "shift_r"}
    ELSE IF part \in {"win", "windows", "cmd", "super"} THEN {"cmd_l", "cmd_r"}
    ELSE {part}

parse_hotkey_string(parts) ==
    UNION {PartKeys(parts[i]) : i \in 1..Len(parts)}

EitherSide(k) ==
    IF k \in {"ctrl_l", "ctrl_r"} THEN {"ctrl_l", "ctrl_r"}
    ELSE IF k \in {"alt_l", "alt_r"} THEN {"alt_l", "alt_r"}
    ELSE IF k \in {"shift_l", "shift_r"} THEN {"shift_l", "shift_r"}
    ELSE IF k \in {"cmd_l", "cmd_r"} THEN {"cmd_l", "cmd_r"}
    ELSE {k}

\* is_hotkey_pressed asking for every key of the parsed set
is_hotkey_pressed_bothsides(hotkey_set, keys) ==
    hotkey_set \subseteq keys

is_hotkey_pressed(hotkey_set, keys) ==
    \A required_key \in hotkey_set : EitherSide(required_key) \cap keys # {}

\* on_key_press without the is_pressed test
on_key_press_nodebounce(key) ==
    /\ listener
    /\ current_keys' = current_keys \cup {key}
    /\ IF is_hotkey_pressed(hotkey_combo, current_keys')
       THEN /\ sessions < MaxSessions
            /\ is_pressed' = TRUE
            /\ pressNew' = pressNew + 1
            /\ sessions' = sessions + 1
       ELSE UNCHANGED <<is_pressed, pressNew, sessions>>
    /\ UNCHANGED <<listener, hotkey_combo, pressMid, releaseNew, recorderVars,
                   model, workerVars, loopVars, uiVars, captureBusy>>
    /\ UNCHANGED sideVars

\* listener thread: a key goes down (or auto-repeats)
on_key_press(key) ==
    /\ listener
    /\ current_keys' = current_keys \cup {key}
    /\ IF ~is_pressed /\ is_hotkey_pressed(hotkey_combo, current_keys')
       THEN /\ sessions < MaxSessions
            /\ is_pressed' = TRUE
            /\ pressNew' = pressNew + 1
            /\ sessions' = sessions + 1
       ELSE UNCHANGED <<is_pressed, pressNew, obsVars>>
    /\ UNCHANGED <<listener, hotkey_combo, pressMid, releaseNew, recorderVars,
                   model, workerVars, loopVars, uiVars, captureBusy>>
    /\ UNCHANGED sideVars

\* listener thread: a key goes up
on_key_release(key) ==
    /\ listener
    /\ current_keys' = current_keys \ {key}
    /\ IF is_pressed /\ ~is_hotkey_pressed(hotkey_combo, current_keys')
       THEN /\ is_pressed' = FALSE
            /\ releaseNew' = releaseNew + 1
       ELSE UNCHANGED <<is_pressed, releaseNew>>
    /\ UNCHANGED <<listener, hotkey_combo, pressNew, pressMid, obsVars,
                   recorderVars, model, workerVars, loopVars, uiVars>>
    /\ UNCHANGED sideVars

\* unregister_hotkey, lines 165-172; None is the empty set here, and no key
\* event reads it while the listener is stopped
unregister_hotkey ==
    /\ listener' = FALSE
    /\ current_keys' = {}
    /\ is_pressed' = FALSE
    /\ hotkey_combo' = {}
    /\ active_listeners' = IF listener THEN active_listeners - 1 ELSE active_listeners
    /\ UNCHANGED <<hotkey_string, raised, callbacks>>
    /\ UNCHANGED <<threadVars, recorderVars, model, workerVars, loopVars, uiVars,
                   obsVars>>
    /\ UNCHANGED <<sharedVars, typerVars, configVars, dialogVars,
                   transcriberVars>>

\* register_hotkey without its call of unregister_hotkey
register_hotkey_nounregister(parts) ==
    /\ hotkey_string' = parts
    /\ hotkey_combo' = parse_hotkey_string(parts)
    /\ raised' = FALSE
    /\ callbacks' = TRUE
    /\ listener' = TRUE
    /\ active_listeners' = active_listeners + 1
    /\ UNCHANGED <<current_keys, is_pressed>>
    /\ UNCHANGED <<threadVars, recorderVars, model, workerVars, loopVars, uiVars,
                   obsVars>>
    /\ UNCHANGED <<sharedVars, typerVars, configVars, dialogVars,
                   transcriberVars>>

\* register_hotkey, lines 97-163: unregister_hotkey, parse, ValueError on an
\* empty set, else the callbacks are set and the listener is started
register_hotkey(parts) ==
    /\ hotkey_string' = parts
    /\ current_keys' = {}
    /\ is_pressed' = FALSE
    /\ hotkey_combo' = parse_hotkey_string(parts)
    /\ IF hotkey_combo' = {}
       THEN /\ raised' = TRUE
            /\ listener' = FALSE
            /\ active_listeners' = IF listener THEN active_listeners - 1
                                   ELSE active_listeners
            /\ UNCHANGED callbacks
       ELSE /\ raised' = FALSE
            /\ callbacks' = TRUE
            /\ listener' = TRUE
            /\ active_listeners' = IF listener THEN active_listeners
                                   ELSE active_listeners + 1
    /\ UNCHANGED <<threadVars, recorderVars, model, workerVars, loopVars, uiVars,
                   obsVars>>
    /\ UNCHANGED <<sharedVars, typerVars, configVars, dialogVars,
                   transcriberVars>>

\* ========================================================= AudioRecorder
\* stream is what self.stream refers to: "none", an input stream that was
\* opened but not started ("unstarted"), or one that is started ("started").
\* live counts the started streams that were never stopped, the one self.stream
\* refers to and those whose reference was overwritten.

Range(f) == {f[i] : i \in DOMAIN f}

\* start_recording, lines 54-58: the early return, or the flag and a fresh queue
start_recording_begin ==
    /\ ~recording
    /\ recording' = TRUE
    /\ audio_queue' = <<>>
    /\ capture' = capture + 1
    /\ UNCHANGED <<stream, live>>

\* start_recording that leaves the flag set when the stream fails
start_recording_open_keepflag(outcome) ==
    /\ outcome \in {"ok", "open_fail", "start_fail"}
    /\ stream' = IF outcome = "open_fail" THEN stream
                 ELSE IF outcome = "start_fail" THEN "unstarted" ELSE "started"
    /\ live' = IF outcome = "ok" THEN live + 1 ELSE live
    /\ UNCHANGED <<recording, audio_queue, capture>>

\* start_recording, lines 67-78: open and start the input stream
\* outcome "ok", "open_fail" (sd.InputStream raises), "start_fail" (stream.start raises)
start_recording_open(outcome) ==
    /\ outcome \in {"ok", "open_fail", "start_fail"}
    /\ stream' = IF outcome = "open_fail" THEN stream
                 ELSE IF outcome = "start_fail" THEN "unstarted" ELSE "started"
    /\ live' = IF outcome = "ok" THEN live + 1 ELSE live
    /\ recording' = IF outcome = "ok" THEN recording ELSE FALSE
    /\ UNCHANGED <<audio_queue, capture>>

\* the sounddevice callback of a started stream, lines 60-65; a chunk is
\* labelled with the capture that is current when it is put
callback ==
    /\ live > 0
    /\ recording
    /\ Len(audio_queue) + Len(meter_temp) < MaxChunks
    /\ audio_queue' = Append(audio_queue, [cap |-> capture, busy |-> captureBusy])
    /\ UNCHANGED <<recording, stream, live, capture>>
    /\ UNCHANGED <<hotkeyVars, threadVars, model, workerVars, loopVars, uiVars,
                   obsVars>>
    /\ UNCHANGED sideVars

\* stop_recording, lines 88-118: the value returned (<<>> stands for None)
stop_recording_result == IF recording THEN audio_queue ELSE <<>>

stop_recording ==
    IF ~recording
    THEN UNCHANGED recorderVars
    ELSE /\ recording' = FALSE
         /\ stream' = "none"
         /\ live' = IF stream = "started" THEN live - 1 ELSE live
         /\ audio_queue' = <<>>
         /\ UNCHANGED capture

\* ======================================================== VTTApplication

\* QThread.isRunning: the thread runs until run has returned and quit was
\* called; it then leaves its event loop at once
isRunning(t) == wstate[t] = "running" \/ (wstate[t] = "signalled" /\ ~quitReq[t])

\* a worker thread of the controller is still running
InFlight == transcription_thread # None /\ isRunning(transcription_thread)

NewWorker == CHOOSE w \in WorkerIds : wstate[w] = "unused" /\
                 \A v \in WorkerIds : v < w => wstate[v] # "unused"

\* a press handler whose start_recording has no early return
on_hotkey_press_begin_noguard ==
    /\ pressNew > 0
    /\ pressNew' = pressNew - 1
    /\ recording' = TRUE
    /\ audio_queue' = <<>>
    /\ capture' = capture + 1
    /\ pressMid' = pressMid + 1
    /\ captureBusy' = InFlight
    /\ UNCHANGED <<stream, live, tray, notified, lastOp, dropped, sessions>>
    /\ UNCHANGED <<hotkeyVars, releaseNew, model, workerVars, loopVars>>
    /\ UNCHANGED sideVars

\* on_hotkey_press up to the flag: a press callback thread starts running
on_hotkey_press_begin ==
    /\ pressNew > 0
    /\ pressNew' = pressNew - 1
    /\ IF recording
       THEN \* start_recording returns at once, set_recording_state follows
            /\ UNCHANGED <<recorderVars, pressMid, captureBusy>>
            /\ tray' = "recording"
            /\ lastOp' = "press_noop"
            /\ notified' = "none"
       ELSE /\ start_recording_begin
            /\ pressMid' = pressMid + 1
            /\ captureBusy' = InFlight
            /\ UNCHANGED <<tray, notified, lastOp>>
    /\ UNCHANGED <<dropped, sessions>>
    /\ UNCHANGED <<hotkeyVars, releaseNew, model, workerVars, loopVars>>
    /\ UNCHANGED sideVars

\* on_hotkey_press from the stream opening to the end of the handler
on_hotkey_press_open(outcome) ==
    /\ pressMid > 0
    /\ pressMid' = pressMid - 1
    /\ start_recording_open(outcome)
    /\ IF outcome = "ok"
       THEN /\ tray' = "recording"
            /\ notified' = "none"
            /\ lastOp' = "press_ok"
       ELSE /\ tray' = tray
            /\ notified' = "recording_failed"
            /\ lastOp' = "press_fail"
    /\ UNCHANGED dropped
    /\ UNCHANGED <<hotkeyVars, pressNew, releaseNew, model, workerVars, loopVars,
                   obsVars>>
    /\ UNCHANGED sideVars

\* the busy test inverted
start_transcription_busy_inverted ==
    /\ transcription_thread # None
    /\ ~isRunning(transcription_thread)

\* start_transcription, lines 153-157: is the previous thread still running
start_transcription_busy ==
    /\ transcription_thread # None
    /\ isRunning(transcription_thread)

\* the refusal without its return: the notification, then a worker all the same
start_transcription_refuse_noreturn(audio_data) ==
    /\ tray' = "idle"
    /\ notified' = "busy"
    /\ lastOp' = "release_busy"
    /\ dropped' = dropped \cup {c.cap : c \in Range(audio_data)}
    /\ transcription_thread' = NewWorker
    /\ transcription_worker' = NewWorker
    /\ wstate' = [wstate EXCEPT ![NewWorker] = "running"]
    /\ quitReq' = [quitReq EXCEPT ![transcription_thread] = TRUE]
    /\ waudio' = [waudio EXCEPT ![NewWorker] = audio_data]
    /\ watchdogTimers' = watchdogTimers + 1
    /\ UNCHANGED <<events, cleanupTimers>>

\* start_transcription, lines 158-162: refuse, the buffer is dropped
start_transcription_refuse(audio_data) ==
    /\ tray' = "idle"
    /\ notified' = "busy"
    /\ lastOp' = "release_busy"
    /\ dropped' = dropped \cup {c.cap : c \in Range(audio_data)}
    /\ UNCHANGED <<workerVars, loopVars>>

\* start_transcription, lines 164-198: drop the old references, start a worker,
\* arm the 30 s watchdog
start_transcription_start(audio_data) ==
    LET old == transcription_thread
        w == NewWorker
    IN  /\ transcription_thread' = w
        /\ transcription_worker' = w
        /\ wstate' = [wstate EXCEPT ![w] = "running"]
        /\ quitReq' = IF old # None THEN [quitReq EXCEPT ![old] = TRUE] ELSE quitReq
        /\ waudio' = [waudio EXCEPT ![w] = audio_data]
        /\ watchdogTimers' = watchdogTimers + 1
        /\ UNCHANGED <<events, cleanupTimers>>
        /\ tray' = "transcribing"
        /\ notified' = "none"
        /\ lastOp' = "release_started"
        /\ UNCHANGED dropped

start_transcription(audio_data) ==
    IF start_transcription_busy
    THEN start_transcription_refuse(audio_data)
    ELSE start_transcription_start(audio_data)

\* the release handler without its empty-buffer test
has_audio_unchecked(audio_data) == TRUE

\* on_hotkey_release, line 125: was anything recorded
has_audio(audio_data) == audio_data # <<>>

\* on_hotkey_release: a release callback thread runs the whole handler
on_hotkey_release ==
    /\ releaseNew > 0
    /\ releaseNew' = releaseNew - 1
    /\ LET audio_data == stop_recording_result
       IN  /\ stop_recording
           /\ IF ~has_audio(audio_data)
              THEN /\ tray' = "idle"
                   /\ notified' = "none"
                   /\ lastOp' = "release_empty"
                   /\ UNCHANGED <<workerVars, loopVars, dropped>>
              ELSE \* set_transcribing_state, then start_transcription
                   start_transcription(audio_data)
    /\ UNCHANGED <<hotkeyVars, pressNew, pressMid, model, obsVars>>
    /\ UNCHANGED sideVars

\* on_settings_changed, main.py lines 309-329: unregister_hotkey and
\* setup_hotkey with the stored combination, change_model when the size
\* differs (load_outcome "same" when it does not; a failed load raises out of
\* the slot), then the typing method
on_settings_changed(load_outcome, clipboard_setting) ==
    /\ hotkey_string' = SessionHotkey
    /\ current_keys' = {}
    /\ is_pressed' = FALSE
    /\ hotkey_combo' = parse_hotkey_string(SessionHotkey)
    /\ raised' = FALSE
    /\ callbacks' = TRUE
    /\ listener' = TRUE
    /\ active_listeners' = IF listener THEN active_listeners ELSE active_listeners + 1
    /\ model' = IF load_outcome = "same" THEN model
                ELSE IF load_outcome = "ok" THEN "loaded" ELSE "none"
    /\ use_clipboard' = IF load_outcome = "load_failed" THEN use_clipboard
                        ELSE clipboard_setting
    /\ UNCHANGED <<threadVars, recorderVars, workerVars, loopVars, uiVars, obsVars>>
    /\ UNCHANGED <<transcript, typer_text, keystrokes, clipboard, pastes, result,
                   typing_raised, paste_result, typer_op>>
    /\ UNCHANGED <<sharedVars, configVars, dialogVars,
                   transcriberVars>>

\* ============================== the dialogs that share the AudioRecorder
\* AudioLevelMeterDialog (settings_dialog.py) and the learn-from-voice part of
\* DictionaryDialog are given the application's AudioRecorder; they run on
\* the Qt main thread while the hotkey callbacks run on their own threads.
\* The dialogs are modal: one of them records at a time.

\* update_level: chunks taken from the queue at one tick, chunks put back
TakeChunks == 10
KeepChunks == 5

\* the captures of the hotkey among those of the chunks
HotkeyCaptures(chunks) == {c.cap : c \in Range(chunks)} \ foreign

\* AudioRecorder.start_recording as one call on the main thread
start_recording(outcome) ==
    IF recording
    THEN UNCHANGED recorderVars
    ELSE /\ recording' = (outcome = "ok")
         /\ audio_queue' = <<>>
         /\ capture' = capture + 1
         /\ stream' = IF outcome = "open_fail" THEN stream
                      ELSE IF outcome = "start_fail" THEN "unstarted" ELSE "started"
         /\ live' = IF outcome = "ok" THEN live + 1 ELSE live

\* did that call raise
start_recording_raises(outcome) == ~recording /\ outcome # "ok"

\* AudioLevelMeterDialog.__init__ / start_monitoring, lines 518-531
start_monitoring(outcome) ==
    /\ ~meter_is_recording /\ ~learn_is_recording
    /\ recording \/ Cardinality(foreign) < MaxDialogs
    /\ start_recording(outcome)
    /\ meter_is_recording' = ~start_recording_raises(outcome)
    /\ foreign' = IF recording THEN foreign ELSE foreign \cup {capture + 1}
    /\ UNCHANGED <<meter_temp, learn_is_recording, stolen>>
    /\ UNCHANGED <<hotkeyVars, threadVars, model, workerVars, loopVars, uiVars, obsVars>>
    /\ UNCHANGED <<registerVars, typerVars, configVars, dialogVars,
                   transcriberVars>>

\* update_level, lines 539-550: up to ten chunks are taken off the queue
update_level_take ==
    /\ meter_is_recording
    /\ meter_temp = <<>>
    /\ audio_queue # <<>>
    /\ LET n == IF Len(audio_queue) < TakeChunks THEN Len(audio_queue) ELSE TakeChunks
       IN  /\ meter_temp' = SubSeq(audio_queue, 1, n)
           /\ audio_queue' = SubSeq(audio_queue, n + 1, Len(audio_queue))
    /\ UNCHANGED <<recording, stream, live, capture>>
    /\ UNCHANGED <<meter_is_recording, learn_is_recording, foreign, stolen>>
    /\ UNCHANGED <<hotkeyVars, threadVars, model, workerVars, loopVars, uiVars, obsVars>>
    /\ UNCHANGED <<registerVars, typerVars, configVars, dialogVars,
                   transcriberVars>>

\* update_level, lines 552-554: the last five are put on the queue the
\* recorder has now, the others are gone
update_level_put ==
    /\ meter_temp # <<>>
    /\ LET n == Len(meter_temp)
           first == IF n > KeepChunks THEN n - KeepChunks + 1 ELSE 1
       IN  /\ audio_queue' = audio_queue \o SubSeq(meter_temp, first, n)
           /\ stolen' = stolen \cup HotkeyCaptures(SubSeq(meter_temp, 1, first - 1))
    /\ meter_temp' = <<>>
    /\ UNCHANGED <<recording, stream, live, capture>>
    /\ UNCHANGED <<meter_is_recording, learn_is_recording, foreign>>
    /\ UNCHANGED <<hotkeyVars, threadVars, model, workerVars, loopVars, uiVars, obsVars>>
    /\ UNCHANGED <<registerVars, typerVars, configVars, dialogVars,
                   transcriberVars>>

\* close_and_stop, lines 591-597, between two ticks of the update timer
close_and_stop ==
    /\ meter_is_recording
    /\ meter_temp = <<>>
    /\ stop_recording
    /\ stolen' = stolen \cup HotkeyCaptures(stop_recording_result)
    /\ meter_is_recording' = FALSE
    /\ UNCHANGED <<meter_temp, learn_is_recording, foreign>>
    /\ UNCHANGED <<hotkeyVars, threadVars, model, workerVars, loopVars, uiVars, obsVars>>
    /\ UNCHANGED <<registerVars, typerVars, configVars, dialogVars,
                   transcriberVars>>

\* DictionaryDialog._start_recording, lines 365-392
learn_start_recording(outcome) ==
    /\ ~learn_is_recording /\ ~meter_is_recording
    /\ recording \/ Cardinality(foreign) < MaxDialogs
    /\ start_recording(outcome)
    /\ learn_is_recording' = ~start_recording_raises(outcome)
    /\ foreign' = IF recording THEN foreign ELSE foreign \cup {capture + 1}
    /\ UNCHANGED <<meter_is_recording, meter_temp, stolen>>
    /\ UNCHANGED <<hotkeyVars, threadVars, model, workerVars, loopVars, uiVars, obsVars>>
    /\ UNCHANGED <<registerVars, typerVars, configVars, dialogVars,
                   transcriberVars>>

\* DictionaryDialog._stop_recording, lines 394-435: by the button or by the
\* 3 s timer; what stop_recording returns goes to a LearnWorker
learn_stop_recording ==
    /\ learn_is_recording
    /\ learn_is_recording' = FALSE
    /\ stop_recording
    /\ stolen' = stolen \cup HotkeyCaptures(stop_recording_result)
    /\ UNCHANGED <<meter_is_recording, meter_temp, foreign>>
    /\ UNCHANGED <<hotkeyVars, threadVars, model, workerVars, loopVars, uiVars, obsVars>>
    /\ UNCHANGED <<registerVars, typerVars, configVars, dialogVars,
                   transcriberVars>>

\* ====================================== Transcriber / TranscriptionWorker

\* what the recognition engine can return for a non-empty buffer
Texts == {"", "hi"}

\* a worker signal: the connected slots are queued in connection order, the
\* handler first, the quit lambda second
Emit(w, slot, text, outcome) ==
    events' = events \o
        << [slot |-> slot, w |-> w, text |-> text, outcome |-> outcome],
           [slot |-> "quit", w |-> w, text |-> "", outcome |-> "none"] >>

\* TranscriptionWorker.run with Transcriber.transcribe and load_model:
\*   "load_failed"       load_model raises, run emits error
\*   "inference_failed"  model.transcribe raises, transcribe returns "", run emits finished
\*   "ok"                run emits finished(text)
\* A worker whose transcribe call never returns is one for which this step is
\* never taken.  waudio[w] is the buffer w is transcribing.
run(w, outcome, text) ==
    /\ wstate[w] = "running"
    /\ outcome \in {"load_failed", "inference_failed", "ok"}
    /\ outcome = "load_failed" => model = "none" /\ text = ""
    /\ outcome = "inference_failed" => text = ""
    /\ model' = IF outcome = "load_failed" THEN model ELSE "loaded"
    /\ wstate' = [wstate EXCEPT ![w] = "signalled"]
    /\ waudio' = [waudio EXCEPT ![w] = <<>>]
    /\ Emit(w, IF outcome = "load_failed" THEN "error" ELSE "complete", text, outcome)
    /\ UNCHANGED <<transcription_thread, transcription_worker, quitReq,
                   cleanupTimers, watchdogTimers>>
    /\ UNCHANGED <<hotkeyVars, threadVars, recorderVars, uiVars, obsVars>>
    /\ UNCHANGED sideVars

\* =================================== VTTApplication, main-thread handlers

\* on_transcription_complete; typed is the result of keyboard_typer.type_text
on_transcription_complete(typed) ==
    /\ events # <<>>
    /\ Head(events).slot = "complete"
    /\ events' = Tail(events)
    /\ IF Head(events).text # ""
       THEN lastOp' = IF typed THEN "complete_typed" ELSE "complete_untyped"
       ELSE /\ typed = FALSE
            /\ lastOp' = "complete_empty"
    /\ tray' = "idle"
    /\ notified' = "none"
    /\ UNCHANGED <<dropped, cleanupTimers, watchdogTimers>>
    /\ UNCHANGED <<hotkeyVars, threadVars, recorderVars, model, workerVars, obsVars>>
    /\ UNCHANGED sideVars

on_transcription_error ==
    /\ events # <<>>
    /\ Head(events).slot = "error"
    /\ events' = Tail(events)
    /\ tray' = "idle"
    /\ notified' = "transcription_failed"
    /\ lastOp' = "error"
    /\ UNCHANGED <<dropped, cleanupTimers, watchdogTimers>>
    /\ UNCHANGED <<hotkeyVars, threadVars, recorderVars, model, workerVars, obsVars>>
    /\ UNCHANGED sideVars

\* _quit_transcription_thread: quit the thread now referenced, arm the 100 ms timer
quit_transcription_thread ==
    /\ events # <<>>
    /\ Head(events).slot = "quit"
    /\ events' = Tail(events)
    /\ IF transcription_thread # None
       THEN /\ quitReq' = [quitReq EXCEPT ![transcription_thread] = TRUE]
            /\ cleanupTimers' = cleanupTimers + 1
       ELSE UNCHANGED <<quitReq, cleanupTimers>>
    /\ UNCHANGED <<uiVars, watchdogTimers>>
    /\ UNCHANGED <<transcription_thread, transcription_worker, wstate, waudio>>
    /\ UNCHANGED <<hotkeyVars, threadVars, recorderVars, model, obsVars>>
    /\ UNCHANGED sideVars

\* cleanup_transcription_thread, lines 264-272: wait(2000) at most, then drop both
cleanup_refs ==
    /\ transcription_thread' = None
    /\ transcription_worker' = None

\* the 100 ms timer fires
cleanup_transcription_thread ==
    /\ cleanupTimers > 0
    /\ cleanupTimers' = cleanupTimers - 1
    /\ cleanup_refs
    /\ UNCHANGED <<uiVars, events, watchdogTimers>>
    /\ UNCHANGED <<wstate, quitReq, waudio>>
    /\ UNCHANGED <<hotkeyVars, threadVars, recorderVars, model, obsVars>>
    /\ UNCHANGED sideVars

\* a watchdog that leaves a thread alone while it is running
force_cleanup_unless_running ==
    /\ watchdogTimers > 0
    /\ watchdogTimers' = watchdogTimers - 1
    /\ IF transcription_thread # None /\ ~isRunning(transcription_thread)
       THEN cleanup_refs
       ELSE UNCHANGED <<transcription_thread, transcription_worker>>
    /\ UNCHANGED <<uiVars, events, cleanupTimers>>
    /\ UNCHANGED <<wstate, quitReq, waudio>>
    /\ UNCHANGED <<hotkeyVars, threadVars, recorderVars, model, obsVars>>
    /\ UNCHANGED sideVars

\* the 30 s timer fires
force_cleanup_if_stuck ==
    /\ watchdogTimers > 0
    /\ watchdogTimers' = watchdogTimers - 1
    /\ IF transcription_thread # None
       THEN /\ quitReq' = IF isRunning(transcription_thread)
                          THEN [quitReq EXCEPT ![transcription_thread] = TRUE]
                          ELSE quitReq
            /\ cleanup_refs
       ELSE UNCHANGED <<transcription_thread, transcription_worker, quitReq>>
    /\ UNCHANGED <<uiVars, events, cleanupTimers>>
    /\ UNCHANGED <<wstate, waudio>>
    /\ UNCHANGED <<hotkeyVars, threadVars, recorderVars, model, obsVars>>
    /\ UNCHANGED sideVars

\* str.lower on the words of the model
Lower(word) ==
    IF word = "iObeya" THEN "iobeya"
    ELSE IF word = "IOBARE" THEN "iobare"
    ELSE IF word = "Resonance" THEN "resonance"
    ELSE word

\* =========================================================== Transcriber
\* transcribe runs on the worker thread, change_model on the Qt main thread
\* (on_settings_changed).  self.model is "none" or "loaded"; model_built is
\* the size the loaded object was constructed with.

ModelSizes == {"small", "medium"}
TranscriberThreads == {"worker", "settings"}

TranscriberInit ==
    /\ model_size = "small" /\ model_built = "" /\ loading = FALSE
    /\ lock = "free"
    /\ tpc = [t \in TranscriberThreads |-> "idle"]
    /\ inference = "none" /\ constructions = 0 /\ changes = 0

\* what is left alone by the steps of the Transcriber
TranscriberFrame ==
    /\ UNCHANGED <<hotkeyVars, threadVars, recorderVars, workerVars, loopVars, uiVars,
                   obsVars>>
    /\ UNCHANGED <<sharedVars, registerVars, typerVars, configVars, dialogVars>>

\* where a thread goes on when load_model has returned
AfterLoad(t) == IF t = "worker" THEN "infer" ELSE "idle"

\* TranscriptionWorker.run calls transcribe
transcribe_begin ==
    /\ tpc["worker"] = "idle"
    /\ tpc' = [tpc EXCEPT !["worker"] = "check"]
    /\ inference' = "none"
    /\ UNCHANGED <<model, model_size, model_built, loading, lock, constructions, changes>>
    /\ TranscriberFrame

\* transcribe, lines 96-98: `if self.model is None: self.load_model()`
transcribe_check ==
    /\ tpc["worker"] = "check"
    /\ tpc' = [tpc EXCEPT !["worker"] = IF model = "none" THEN "lock" ELSE "infer"]
    /\ UNCHANGED <<model, model_size, model_built, loading, lock, inference,
                   constructions, changes>>
    /\ TranscriberFrame

\* load_model, lines 50-54: take the lock, return if loaded or loading
load_model_enter(t) ==
    /\ tpc[t] = "lock"
    /\ lock = "free"
    /\ IF model # "none" \/ loading
       THEN /\ tpc' = [tpc EXCEPT ![t] = AfterLoad(t)]
            /\ UNCHANGED <<lock, loading>>
       ELSE /\ tpc' = [tpc EXCEPT ![t] = "construct"]
            /\ lock' = t
            /\ loading' = TRUE
    /\ UNCHANGED <<model, model_size, model_built, inference, constructions, changes>>
    /\ TranscriberFrame

\* load_model, lines 55-71: construct the WhisperModel under the lock; when the
\* constructor raises, load_model raises (run emits error, or the exception
\* leaves the settings slot)
load_model_construct(t, outcome) ==
    /\ tpc[t] = "construct"
    /\ loading' = FALSE
    /\ lock' = "free"
    /\ IF outcome = "ok"
       THEN /\ model' = "loaded"
            /\ model_built' = model_size
            /\ constructions' = constructions + 1
            /\ tpc' = [tpc EXCEPT ![t] = AfterLoad(t)]
            /\ UNCHANGED inference
       ELSE /\ tpc' = [tpc EXCEPT ![t] = "idle"]
            /\ inference' = IF t = "worker" THEN "load_failed" ELSE inference
            /\ UNCHANGED <<model, model_built, constructions>>
    /\ UNCHANGED <<model_size, changes>>
    /\ TranscriberFrame

\* transcribe, lines 109-127: self.model.transcribe(...) on whatever self.model
\* is now; on None the AttributeError is caught and "" is returned
transcribe_infer ==
    /\ tpc["worker"] = "infer"
    /\ inference' = IF model = "none" THEN "None" ELSE model_built
    /\ tpc' = [tpc EXCEPT !["worker"] = "idle"]
    /\ UNCHANGED <<model, model_size, model_built, loading, lock, constructions, changes>>
    /\ TranscriberFrame

\* change_model, lines 80-83, called by on_settings_changed when the size
\* differs: under the lock the size is set and the model dropped; load_model
\* follows
change_model(size) ==
    /\ tpc["settings"] = "idle"
    /\ changes < MaxChanges
    /\ size # model_size
    /\ lock = "free"
    /\ model_size' = size
    /\ model' = "none"
    /\ model_built' = ""
    /\ changes' = changes + 1
    /\ tpc' = [tpc EXCEPT !["settings"] = "lock"]
    /\ UNCHANGED <<loading, lock, inference, constructions>>
    /\ TranscriberFrame

\* ========================================================= KeyboardTyper
\* A text is a sequence of words; the typer sends it unit by unit and
\* controller.type may raise at any of them.

TextUnits == {"iobare", "IOBARE", "hi"}
TyperTexts == UNION {[1..n -> TextUnits] : n \in 0..MaxLen}
PasteOutcomes == {"ok", "copy_fail", "paste_fail"}

\* paste_from_clipboard, lines 90-110; before is what was sent to the
\* controller when the paste begins
\*   "copy_fail"   pyperclip.copy raises
\*   "paste_fail"  the Ctrl+V chord raises
paste_from_clipboard(t, before, outcome) ==
    /\ pastes' = pastes + 1
    /\ clipboard' = IF outcome = "copy_fail" THEN clipboard ELSE t
    /\ keystrokes' = IF outcome = "ok" THEN Append(before, "ctrl+v") ELSE before
    /\ paste_result' = IF outcome = "ok" THEN "True" ELSE "False"
    /\ result' = IF outcome = "ok" THEN "True" ELSE "False"

\* type_text that gives up when the key simulation raises
type_text_nofallback(t, fail_at, outcome) ==
    /\ typer_text' = t
    /\ typer_op' = "type_text"
    /\ IF t = <<>>
       THEN /\ result' = "False"
            /\ typing_raised' = FALSE /\ paste_result' = "none"
            /\ UNCHANGED <<keystrokes, clipboard, pastes>>
       ELSE IF use_clipboard
       THEN /\ typing_raised' = FALSE
            /\ paste_from_clipboard(t, keystrokes, outcome)
       ELSE IF fail_at = 0
       THEN /\ keystrokes' = keystrokes \o t
            /\ result' = "True"
            /\ typing_raised' = FALSE /\ paste_result' = "none"
            /\ UNCHANGED <<clipboard, pastes>>
       ELSE /\ typing_raised' = TRUE
            /\ keystrokes' = keystrokes \o SubSeq(t, 1, fail_at - 1)
            /\ result' = "False"
            /\ paste_result' = "none"
            /\ UNCHANGED <<clipboard, pastes>>

\* type_text without the test for an empty text
type_text_noemptytest(t, fail_at, outcome) ==
    /\ typer_text' = t
    /\ typer_op' = "type_text"
    /\ IF use_clipboard
       THEN /\ typing_raised' = FALSE
            /\ paste_from_clipboard(t, keystrokes, outcome)
       ELSE IF fail_at = 0
       THEN /\ keystrokes' = keystrokes \o t
            /\ result' = "True"
            /\ typing_raised' = FALSE /\ paste_result' = "none"
            /\ UNCHANGED <<clipboard, pastes>>
       ELSE /\ typing_raised' = TRUE
            /\ paste_from_clipboard(t, keystrokes \o SubSeq(t, 1, fail_at - 1), outcome)

\* type_text, lines 49-76; fail_at = 0: no character raises, otherwise the
\* index of the unit at which controller.type raises
type_text(t, fail_at, outcome) ==
    /\ typer_text' = t
    /\ typer_op' = "type_text"
    /\ IF t = <<>>
       THEN /\ result' = "False"
            /\ typing_raised' = FALSE /\ paste_result' = "none"
            /\ UNCHANGED <<keystrokes, clipboard, pastes>>
       ELSE IF use_clipboard
       THEN /\ typing_raised' = FALSE
            /\ paste_from_clipboard(t, keystrokes, outcome)
       ELSE IF fail_at = 0
       THEN /\ keystrokes' = keystrokes \o t
            /\ result' = "True"
            /\ typing_raised' = FALSE /\ paste_result' = "none"
            /\ UNCHANGED <<clipboard, pastes>>
       ELSE /\ typing_raised' = TRUE
            /\ paste_from_clipboard(t, keystrokes \o SubSeq(t, 1, fail_at - 1), outcome)

\* type_text_fast, lines 122-136; fails: controller.type raises
type_text_fast(t, fails) ==
    /\ typer_text' = t
    /\ typer_op' = "type_text_fast"
    /\ paste_result' = "none"
    /\ UNCHANGED <<clipboard, pastes>>
    /\ IF t = <<>>
       THEN /\ result' = "False"
            /\ typing_raised' = FALSE
            /\ UNCHANGED keystrokes
       ELSE IF fails
       THEN /\ result' = "False"
            /\ typing_raised' = TRUE
            /\ UNCHANGED keystrokes
       ELSE /\ result' = "True"
            /\ typing_raised' = FALSE
            /\ keystrokes' = keystrokes \o t

\* the typer's inputs: where a failure can strike in a text
FailPoints(t) == 0..Len(t)

\* on_transcription_complete, lines 209-231, with the typer spelled out: the
\* text received from the worker is passed to type_text as it is
output_text(fail_at, outcome) ==
    /\ typer_op = "none" /\ lastOp = "init"
    /\ IF transcript # <<>>
       THEN /\ type_text(transcript, fail_at, outcome)
            /\ lastOp' = IF result' = "True" THEN "complete_typed" ELSE "complete_untyped"
       ELSE /\ lastOp' = "complete_empty"
            /\ UNCHANGED <<typer_text, keystrokes, clipboard, pastes, result,
                           typing_raised, paste_result, typer_op>>
    /\ tray' = "idle"
    /\ notified' = "none"
    /\ UNCHANGED <<transcript, use_clipboard, dropped>>
    /\ UNCHANGED <<hotkeyVars, threadVars, recorderVars, model, workerVars, loopVars,
                   obsVars>>
    /\ UNCHANGED <<sharedVars, registerVars, configVars, dialogVars,
                   transcriberVars>>

\* a caller of the typer's interface
call_type_text(fail_at, outcome) ==
    /\ typer_op = "none" /\ lastOp = "init"
    /\ type_text(transcript, fail_at, outcome)
    /\ UNCHANGED <<transcript, use_clipboard>>
    /\ UNCHANGED sessionVars
    /\ UNCHANGED <<sharedVars, registerVars, configVars, dialogVars,
                   transcriberVars>>

call_type_text_fast(fails) ==
    /\ typer_op = "none" /\ lastOp = "init"
    /\ type_text_fast(transcript, fails)
    /\ UNCHANGED <<transcript, use_clipboard>>
    /\ UNCHANGED sessionVars
    /\ UNCHANGED <<sharedVars, registerVars, configVars, dialogVars,
                   transcriberVars>>

\* ========================================================= ConfigManager
\* A JSON value is a scalar or an object; an object's items are a function
\* from its keys to JSON values.

Scalar(v) == [is_dict |-> FALSE, value |-> v, items |-> <<>>]
Dict(items) == [is_dict |-> TRUE, value |-> "", items |-> items]

\* DEFAULT_CONFIG, lines 51-80: the version and the hotkey section
DEFAULT_CONFIG ==
    [k \in {"version", "hotkey"} |->
        IF k = "version" THEN Scalar("1.1.0")
        ELSE Dict([f \in {"combination", "enabled"} |->
                      IF f = "combination" THEN Scalar("ctrl+alt+r") ELSE Scalar("True")])]

\* the settings file: absent, not JSON, or a JSON value
NoFile == [state |-> "missing", doc |-> Scalar("")]
BadFile == [state |-> "unreadable", doc |-> Scalar("")]
StoredFile(doc) == [state |-> "stored", doc |-> doc]

\* the documents a settings file can hold: sections and fields present or
\* not, each a scalar or an object, and a field the defaults do not have
SectionItems == UNION {[D -> {Scalar("stored")}] : D \in SUBSET {"combination", "mode"}}
StoredValues == {Scalar("stored")} \cup {Dict(items) : items \in SectionItems}
StoredDocs ==
    {Scalar("stored")} \cup
    {Dict(items) : items \in UNION {[D -> StoredValues] :
                                        D \in SUBSET {"version", "hotkey", "theme"}}}
ConfigFiles == {NoFile, BadFile} \cup {StoredFile(doc) : doc \in StoredDocs}

\* _merge_configs, lines 233-241, on the items of two objects
RECURSIVE merge_configs(_, _)
merge_configs(default, loaded) ==
    [key \in DOMAIN default \cup DOMAIN loaded |->
        IF key \notin DOMAIN loaded THEN default[key]
        ELSE IF key \in DOMAIN default /\ default[key].is_dict /\ loaded[key].is_dict
        THEN Dict(merge_configs(default[key].items, loaded[key].items))
        ELSE loaded[key]]

\* the keys of an object whose values are objects: dict.copy() copies the
\* top level only, so these values are shared with the copy
Sections(items) == {key \in DOMAIN items : items[key].is_dict}

\* __init__, lines 82-96, up to the call of load: a ConfigManager on the
\* settings file in use or on a path where no file is
construct(file) ==
    /\ config_loaded
    /\ config_file' = file
    /\ config' = class_defaults
    /\ aliased' = Sections(class_defaults)
    /\ config_loaded' = FALSE
    /\ UNCHANGED <<class_defaults, dictionary_enabled, replacements>>
    /\ UNCHANGED <<sessionVars, sharedVars, registerVars, typerVars, dialogVars,
                   transcriberVars>>

\* load, lines 100-113: json.load raises on a file that is not JSON, and
\* loaded.items() on a document that is not an object.  _merge_configs builds
\* a new dict for a section both have; a section the document lacks stays the
\* dict of the class attribute
load ==
    /\ ~config_loaded
    /\ config_loaded' = TRUE
    /\ IF config_file.state = "stored" /\ config_file.doc.is_dict
       THEN /\ config' = merge_configs(class_defaults, config_file.doc.items)
            /\ aliased' = Sections(class_defaults) \ DOMAIN config_file.doc.items
       ELSE /\ config' = class_defaults
            /\ aliased' = Sections(class_defaults)
    /\ UNCHANGED <<config_file, dictionary_enabled, replacements, class_defaults>>
    /\ UNCHANGED <<sessionVars, sharedVars, registerVars, typerVars, dialogVars,
                   transcriberVars>>

\* the combinations the settings dialog can store
HotkeyChoices == {"ctrl+alt+r", "ctrl+shift+v"}

\* set_hotkey / set, lines 164-175 and 186-188; set raises when the hotkey
\* section of self.config is not an object.  The assignment is made in the
\* dict that self.config["hotkey"] refers to
set_hotkey(combination) ==
    /\ config_loaded
    /\ "hotkey" \in DOMAIN config => config["hotkey"].is_dict
    /\ config' = [key \in DOMAIN config \cup {"hotkey"} |->
                     IF key # "hotkey" THEN config[key]
                     ELSE Dict([f \in (IF "hotkey" \in DOMAIN config
                                        THEN DOMAIN config["hotkey"].items ELSE {})
                                       \cup {"combination"} |->
                                  IF f = "combination" THEN Scalar(combination)
                                  ELSE config["hotkey"].items[f]])]
    /\ class_defaults' = IF "hotkey" \in aliased
                         THEN [class_defaults EXCEPT !["hotkey"] = config'["hotkey"]]
                         ELSE class_defaults
    /\ UNCHANGED <<config_file, config_loaded, dictionary_enabled, replacements,
                   aliased>>
    /\ UNCHANGED <<sessionVars, sharedVars, registerVars, typerVars, dialogVars,
                   transcriberVars>>

\* save, lines 115-129: json.dump of self.config into the settings file
save ==
    /\ config_loaded
    /\ config_file' = StoredFile(Dict(config))
    /\ UNCHANGED <<config, config_loaded, dictionary_enabled, replacements,
                   class_defaults, aliased>>
    /\ UNCHANGED <<sessionVars, sharedVars, registerVars, typerVars, dialogVars,
                   transcriberVars>>

\* reset_to_defaults, lines 259-262: a shallow copy of the class attribute,
\* then save
reset_to_defaults ==
    /\ config_loaded
    /\ config' = class_defaults
    /\ aliased' = Sections(class_defaults)
    /\ config_file' = StoredFile(Dict(config'))
    /\ UNCHANGED <<config_loaded, dictionary_enabled, replacements, class_defaults>>
    /\ UNCHANGED <<sessionVars, sharedVars, registerVars, typerVars, dialogVars,
                   transcriberVars>>

\* ====================================================== DictionaryDialog
\* self._data is a function from the correct words to their lists of
\* variations; word_list shows its domain, variation_list the list of the
\* selected word.

\* what the user can type in new_word_input and in new_variation_input, and
\* what a voice sample can be transcribed as
WordInputs == {"iObeya", "iobeya", "Resonance", ""}
VariationInputs == {"iobare", "IOBARE", "iobeya", ""}

\* a stored value that is a list
ListOf(variants) == [is_list |-> TRUE, value |-> variants]

\* a stored value that is not a list
ScalarOf(word) == [is_list |-> FALSE, value |-> word]

\* dictionary.replacements as it can be stored: saved by this dialog, written
\* in the "wrong word -> correct word" form of config.py:252, or edited by hand
StoredTables ==
    { <<>>,
      [c \in {"iObeya"} |-> ListOf(<<"iobare">>)],
      [c \in {"iObeya", "Resonance"} |->
          IF c = "iObeya" THEN ListOf(<<"iobare">>) ELSE ListOf(<<"IOBARE">>)],
      [c \in {"iobare", "obeya"} |-> ScalarOf("iObeya")],
      [c \in {"Resonance"} |-> ScalarOf("")] }

\* load_dictionary, lines 211-215: one stored value as a list of variations
LoadedVariations(stored) ==
    IF stored.is_list THEN stored.value
    ELSE IF stored.value # "" THEN <<stored.value>> ELSE <<>>

\* load_dictionary, called by __init__: the dialog opens on the stored table,
\* row 0 selected when there is one
load_dictionary ==
    /\ dialog = "closed"
    /\ dialog' = "open"
    /\ data' = [w \in DOMAIN replacements |-> LoadedVariations(replacements[w])]
    /\ IF DOMAIN replacements = {} THEN current' = ""
       ELSE current' \in DOMAIN replacements
    /\ UNCHANGED <<sessionVars, sharedVars, registerVars, typerVars, configVars,
                   transcriberVars>>

\* on_word_selected: the user selects a word of word_list
on_word_selected(word) ==
    /\ dialog = "open"
    /\ word \in DOMAIN data
    /\ current' = word
    /\ UNCHANGED <<dialog, data>>
    /\ UNCHANGED <<sessionVars, sharedVars, registerVars, typerVars, configVars,
                   transcriberVars>>

\* add_word, lines 239-254
add_word(word) ==
    /\ dialog = "open"
    /\ Cardinality(DOMAIN data) < MaxWords
    /\ IF word = "" \/ \E w \in DOMAIN data : Lower(w) = Lower(word)
       THEN UNCHANGED <<data, current>>
       ELSE /\ data' = [w \in DOMAIN data \cup {word} |->
                          IF w = word THEN <<>> ELSE data[w]]
            /\ current' = word
    /\ UNCHANGED dialog
    /\ UNCHANGED <<sessionVars, sharedVars, registerVars, typerVars, configVars,
                   transcriberVars>>

\* remove_word, lines 258-271, confirmed by the user; the list then selects
\* one of the remaining rows
remove_word ==
    /\ dialog = "open"
    /\ current # ""
    /\ data' = [w \in DOMAIN data \ {current} |-> data[w]]
    /\ IF DOMAIN data = {current} THEN current' = ""
       ELSE current' \in DOMAIN data \ {current}
    /\ UNCHANGED dialog
    /\ UNCHANGED <<sessionVars, sharedVars, registerVars, typerVars, configVars,
                   transcriberVars>>

\* lines 287-289 and 320-321: the variation is already listed for the word
IsDuplicate(correct_word, variation) ==
    \E i \in 1..Len(data[correct_word]) :
        Lower(data[correct_word][i]) = Lower(variation)

\* lines 292-296 and 328-336: the variation is listed for another word
IsConflict(correct_word, variation) ==
    \E other_word \in DOMAIN data \ {correct_word} :
        \E i \in 1..Len(data[other_word]) :
            Lower(data[other_word][i]) = Lower(variation)

\* _try_add_variation, lines 278-299: TRUE when the variation is added
try_add_variation(correct_word, variation) ==
    /\ variation # ""
    /\ Lower(variation) # Lower(correct_word)
    /\ ~IsDuplicate(correct_word, variation)
    /\ ~IsConflict(correct_word, variation)

\* self._data[correct_word].append(variation)
AppendVariation(correct_word, variation) ==
    [data EXCEPT ![correct_word] = Append(@, variation)]

\* add_variation, lines 303-341: the same tests, written out a second time
add_variation(variation) ==
    /\ dialog = "open"
    /\ current # ""
    /\ Len(data[current]) < MaxVariants
    /\ IF \/ variation = ""
          \/ Lower(variation) = Lower(current)
          \/ IsDuplicate(current, variation)
          \/ IsConflict(current, variation)
       THEN UNCHANGED data
       ELSE data' = AppendVariation(current, variation)
    /\ UNCHANGED <<dialog, current>>
    /\ UNCHANGED <<sessionVars, sharedVars, registerVars, typerVars, configVars,
                   transcriberVars>>

\* _on_learn_result, lines 437-468: the text a voice sample was transcribed as
on_learn_result(heard) ==
    /\ dialog = "open"
    /\ current # ""
    /\ Len(data[current]) < MaxVariants
    /\ IF heard # "" /\ Lower(heard) # Lower(current)
          /\ try_add_variation(current, heard)
       THEN data' = AppendVariation(current, heard)
       ELSE UNCHANGED data
    /\ UNCHANGED <<dialog, current>>
    /\ UNCHANGED <<sessionVars, sharedVars, registerVars, typerVars, configVars,
                   transcriberVars>>

\* list.remove: the first occurrence is taken out
RemoveFirst(list, item) ==
    LET i == CHOOSE k \in 1..Len(list) :
                 list[k] = item /\ \A j \in 1..(k - 1) : list[j] # item
    IN  SubSeq(list, 1, i - 1) \o SubSeq(list, i + 1, Len(list))

\* remove_variation, lines 345-354: the variation selected in variation_list
remove_variation(variation) ==
    /\ dialog = "open"
    /\ current # ""
    /\ variation \in Range(data[current])
    /\ data' = [data EXCEPT ![current] = RemoveFirst(@, variation)]
    /\ UNCHANGED <<dialog, current>>
    /\ UNCHANGED <<sessionVars, sharedVars, registerVars, typerVars, configVars,
                   transcriberVars>>

\* save_dictionary, lines 491-509: the words that have variations are stored
\* and the dialog is accepted
save_dictionary ==
    /\ dialog = "open"
    /\ replacements' = [w \in {v \in DOMAIN data : data[v] # <<>>} |-> ListOf(data[w])]
    /\ dialog' = "closed"
    /\ data' = <<>>
    /\ current' = ""
    /\ UNCHANGED <<config_file, config, config_loaded, dictionary_enabled,
                   class_defaults, aliased>>
    /\ UNCHANGED <<sessionVars, sharedVars, registerVars, typerVars,
                   transcriberVars>>

\* ========================================================= specification

\* everything but the registration
InitSession ==
    /\ is_pressed = FALSE
    /\ current_keys = {}
    /\ pressNew = 0 /\ pressMid = 0 /\ releaseNew = 0
    /\ recording = FALSE /\ stream = "none" /\ live = 0
    /\ audio_queue = <<>> /\ capture = 0
    /\ model = "none"
    /\ transcription_thread = None /\ transcription_worker = None
    /\ wstate = [w \in WorkerIds |-> "unused"]
    /\ quitReq = [w \in WorkerIds |-> FALSE]
    /\ waudio = [w \in WorkerIds |-> <<>>]
    /\ events = <<>> /\ cleanupTimers = 0 /\ watchdogTimers = 0
    /\ tray = "idle" /\ notified = "none" /\ lastOp = "init"
    /\ dropped = {} /\ sessions = 0 /\ captureBusy = FALSE

InitWith(hotkey) ==
    /\ listener = TRUE
    /\ hotkey_combo = parse_hotkey_string(hotkey)
    /\ InitSession

\* the other components at rest: no dialog open, nothing typed, the default
\* configuration
SideInit ==
    /\ meter_is_recording = FALSE /\ meter_temp = <<>>
    /\ learn_is_recording = FALSE /\ foreign = {} /\ stolen = {}
    /\ hotkey_string = <<>> /\ raised = FALSE /\ callbacks = TRUE
    /\ active_listeners = 1
    /\ TranscriberInit
    /\ transcript = <<>> /\ typer_text = <<>> /\ use_clipboard = TRUE
    /\ keystrokes = <<>> /\ clipboard = <<>> /\ pastes = 0 /\ result = "none"
    /\ typing_raised = FALSE /\ paste_result = "none" /\ typer_op = "none"
    /\ config_file = NoFile /\ config = DEFAULT_CONFIG /\ config_loaded = TRUE
    /\ class_defaults = DEFAULT_CONFIG /\ aliased = Sections(DEFAULT_CONFIG)
    /\ dictionary_enabled = TRUE /\ replacements = <<>>
    /\ dialog = "closed" /\ data = <<>> /\ current = ""

Init == InitWith(SessionHotkey) /\ SideInit

KeyDown == \E key \in SessionKeys : on_key_press(key)
KeyUp == \E key \in SessionKeys : on_key_release(key)
PressOpen == \E outcome \in {"ok", "open_fail", "start_fail"} : on_hotkey_press_open(outcome)
WorkerRun == \E w \in WorkerIds, outcome \in {"load_failed", "inference_failed", "ok"},
                text \in Texts : run(w, outcome, text)
Complete == \E typed \in BOOLEAN : on_transcription_complete(typed)

Next ==
    \/ KeyDown
    \/ KeyUp
    \/ on_hotkey_press_begin
    \/ PressOpen
    \/ on_hotkey_release
    \/ callback
    \/ WorkerRun
    \/ Complete
    \/ on_transcription_error
    \/ quit_transcription_thread
    \/ cleanup_transcription_thread
    \/ force_cleanup_if_stuck

Spec == Init /\ [][Next]_vars

\* ---- HotkeyManager alone: one registration of ctrl+r, all key events
InitHotkey == InitWith(ConfigHotkey) /\ SideInit

AnyKeyDown == \E key \in Keys : on_key_press(key)
AnyKeyUp == \E key \in Keys : on_key_release(key)

NextHotkey ==
    \/ AnyKeyDown
    \/ AnyKeyUp

SpecHotkey == InitHotkey /\ [][NextHotkey]_vars

\* ---- the text output alone: one text, one call
\* the correction tables of the stored configuration: canonical word -> the
\* stored list of variants
InjectTables == { <<>>, [c \in {"iObeya"} |-> ListOf(<<"iobare">>)] }

InitTyper ==
    /\ InitWith(SessionHotkey)
    /\ meter_is_recording = FALSE /\ meter_temp = <<>>
    /\ learn_is_recording = FALSE /\ foreign = {} /\ stolen = {}
    /\ hotkey_string = <<>> /\ raised = FALSE /\ callbacks = TRUE
    /\ active_listeners = 1
    /\ TranscriberInit
    /\ transcript \in TyperTexts
    /\ typer_text = <<>>
    /\ use_clipboard \in BOOLEAN
    /\ keystrokes = <<>> /\ clipboard = <<"old">> /\ pastes = 0 /\ result = "none"
    /\ typing_raised = FALSE /\ paste_result = "none" /\ typer_op = "none"
    /\ config_file = NoFile /\ config = DEFAULT_CONFIG /\ config_loaded = TRUE
    /\ class_defaults = DEFAULT_CONFIG /\ aliased = Sections(DEFAULT_CONFIG)
    /\ dictionary_enabled \in BOOLEAN
    /\ replacements \in InjectTables
    /\ dialog = "closed" /\ data = <<>> /\ current = ""

OutputText == \E fail_at \in FailPoints(transcript), outcome \in PasteOutcomes :
                  output_text(fail_at, outcome)
TypeText == \E fail_at \in FailPoints(transcript), outcome \in PasteOutcomes :
                call_type_text(fail_at, outcome)
TypeTextFast == \E fails \in BOOLEAN : call_type_text_fast(fails)

NextTyper ==
    \/ OutputText
    \/ TypeText
    \/ TypeTextFast

SpecTyper == InitTyper /\ [][NextTyper]_vars

\* ---- the dictionary editor alone, opened on a stored table
InitDictionary ==
    /\ InitWith(SessionHotkey)
    /\ meter_is_recording = FALSE /\ meter_temp = <<>>
    /\ learn_is_recording = FALSE /\ foreign = {} /\ stolen = {}
    /\ hotkey_string = <<>> /\ raised = FALSE /\ callbacks = TRUE
    /\ active_listeners = 1
    /\ TranscriberInit
    /\ transcript = <<>> /\ typer_text = <<>> /\ use_clipboard = TRUE
    /\ keystrokes = <<>> /\ clipboard = <<>> /\ pastes = 0 /\ result = "none"
    /\ typing_raised = FALSE /\ paste_result = "none" /\ typer_op = "none"
    /\ config_file = NoFile /\ config = DEFAULT_CONFIG /\ config_loaded = TRUE
    /\ class_defaults = DEFAULT_CONFIG /\ aliased = Sections(DEFAULT_CONFIG)
    /\ dictionary_enabled = TRUE
    /\ replacements \in StoredTables
    /\ dialog = "closed" /\ data = <<>> /\ current = ""

SelectWord == \E word \in DOMAIN data : on_word_selected(word)
AddWord == \E word \in WordInputs : add_word(word)
AddVariation == \E variation \in VariationInputs : add_variation(variation)
LearnResult == \E heard \in VariationInputs : on_learn_result(heard)
RemoveVariation == \E variation \in VariationInputs \cup {"iObeya"} :
                       remove_variation(variation)

NextDictionary ==
    \/ load_dictionary
    \/ SelectWord
    \/ AddWord
    \/ remove_word
    \/ AddVariation
    \/ LearnResult
    \/ RemoveVariation
    \/ save_dictionary

SpecDictionary == InitDictionary /\ [][NextDictionary]_vars

\* ---- the recorder with its three users: the hotkey session, the
\* microphone test and learn-from-voice; no worker returns here
StreamOutcomes == {"ok", "open_fail", "start_fail"}
MeterStart == \E outcome \in StreamOutcomes : start_monitoring(outcome)
LearnStart == \E outcome \in StreamOutcomes : learn_start_recording(outcome)

NextShared ==
    \/ KeyDown
    \/ KeyUp
    \/ on_hotkey_press_begin
    \/ PressOpen
    \/ on_hotkey_release
    \/ callback
    \/ MeterStart
    \/ update_level_take
    \/ update_level_put
    \/ close_and_stop
    \/ LearnStart
    \/ learn_stop_recording

SpecShared == Init /\ [][NextShared]_vars

\* ---- ConfigManager alone: constructed on a settings file, then used
InitConfig ==
    /\ InitWith(SessionHotkey)
    /\ meter_is_recording = FALSE /\ meter_temp = <<>>
    /\ learn_is_recording = FALSE /\ foreign = {} /\ stolen = {}
    /\ hotkey_string = <<>> /\ raised = FALSE /\ callbacks = TRUE
    /\ active_listeners = 1
    /\ TranscriberInit
    /\ transcript = <<>> /\ typer_text = <<>> /\ use_clipboard = TRUE
    /\ keystrokes = <<>> /\ clipboard = <<>> /\ pastes = 0 /\ result = "none"
    /\ typing_raised = FALSE /\ paste_result = "none" /\ typer_op = "none"
    /\ config_file \in ConfigFiles
    /\ config = DEFAULT_CONFIG
    /\ config_loaded = FALSE
    /\ class_defaults = DEFAULT_CONFIG /\ aliased = Sections(DEFAULT_CONFIG)
    /\ dictionary_enabled = TRUE /\ replacements = <<>>
    /\ dialog = "closed" /\ data = <<>> /\ current = ""

SetHotkey == \E combination \in HotkeyChoices : set_hotkey(combination)

Construct == \E file \in {config_file, NoFile} : construct(file)

NextConfig ==
    \/ load
    \/ SetHotkey
    \/ save
    \/ reset_to_defaults
    \/ Construct

SpecConfig == InitConfig /\ [][NextConfig]_vars

\* ---- registration: the manager is constructed, then hotkeys are registered
\* and unregistered and keys go down and up
ModifierNames == {"ctrl", "control", "alt", "shift", "win", "windows", "cmd", "super"}

\* combination strings after split('+') and strip: ctrl+r, r, the empty
\* string, ctrl+f5, f5, ctrl+
HotkeyStrings ==
    {<<"ctrl", "r">>, <<"r">>, <<"">>, <<"ctrl", "f5">>, <<"f5">>, <<"ctrl", "">>}

InitRegister ==
    /\ listener = FALSE
    /\ hotkey_combo = {}
    /\ InitSession
    /\ meter_is_recording = FALSE /\ meter_temp = <<>>
    /\ learn_is_recording = FALSE /\ foreign = {} /\ stolen = {}
    /\ hotkey_string = <<>> /\ raised = FALSE /\ callbacks = FALSE
    /\ active_listeners = 0
    /\ TranscriberInit
    /\ transcript = <<>> /\ typer_text = <<>> /\ use_clipboard = TRUE
    /\ keystrokes = <<>> /\ clipboard = <<>> /\ pastes = 0 /\ result = "none"
    /\ typing_raised = FALSE /\ paste_result = "none" /\ typer_op = "none"
    /\ config_file = NoFile /\ config = DEFAULT_CONFIG /\ config_loaded = TRUE
    /\ class_defaults = DEFAULT_CONFIG /\ aliased = Sections(DEFAULT_CONFIG)
    /\ dictionary_enabled = TRUE /\ replacements = <<>>
    /\ dialog = "closed" /\ data = <<>> /\ current = ""

Register == \E parts \in HotkeyStrings : register_hotkey(parts)

NextRegister ==
    \/ Register
    \/ unregister_hotkey
    \/ AnyKeyDown
    \/ AnyKeyUp

SpecRegister == InitRegister /\ [][NextRegister]_vars

\* ---- a settings change while the hotkey is in use
SettingsChanged ==
    \E load_outcome \in {"same", "ok", "load_failed"}, clipboard_setting \in BOOLEAN :
        on_settings_changed(load_outcome, clipboard_setting)

NextSettings ==
    \/ KeyDown
    \/ KeyUp
    \/ on_hotkey_press_begin
    \/ PressOpen
    \/ on_hotkey_release
    \/ callback
    \/ SettingsChanged

SpecSettings == Init /\ [][NextSettings]_vars

\* ---- the Transcriber shared by the worker thread and the settings path
LoadEnter == \E t \in TranscriberThreads : load_model_enter(t)
LoadConstruct == \E t \in TranscriberThreads, outcome \in {"ok", "load_failed"} :
                    load_model_construct(t, outcome)
ChangeModel == \E size \in ModelSizes : change_model(size)

NextTranscriber ==
    \/ transcribe_begin
    \/ transcribe_check
    \/ LoadEnter
    \/ LoadConstruct
    \/ transcribe_infer
    \/ ChangeModel

SpecTranscriber == Init /\ [][NextTranscriber]_vars

TypeOK ==
    /\ is_pressed \in BOOLEAN /\ recording \in BOOLEAN
    /\ transcription_thread \in {None} \cup WorkerIds
    /\ tray \in {"idle", "recording", "transcribing"}

\* ---- the session pipeline with the scheduling the Qt event loop provides:
\* an armed single-shot timer fires.  Nothing else is assumed: a worker may
\* stay in transcribe for ever, the user may stop at any point.
FairSpec ==
    /\ Spec
    /\ WF_vars(force_cleanup_if_stuck)
    /\ WF_vars(cleanup_transcription_thread)

\* ================================================================ claims

\* workers inside transcriber.transcribe
Transcribing == {w \in WorkerIds : wstate[w] = "running"}

\* C1: single-flight: at most one TranscriptionWorker is executing
\* transcriber.transcribe at any time, and a worker is created only when the
\* previous one has terminated.
C1_SingleFlight ==
    Cardinality(Transcribing) <= 1

C4_ReleasedBeforeCompletion ==
    [][ (events # <<>> /\ Head(events).slot = "complete" /\ events' = Tail(events))
        => /\ transcription_thread # Head(events).w
           /\ transcription_worker # Head(events).w ]_vars

SessionIdle ==
    /\ ~recording
    /\ live = 0
    /\ transcription_thread = None
    /\ transcription_worker = None

\* nothing is left to run: no key held, no callback thread, no queued slot, no
\* armed timer, no worker in transcribe
Quiescent ==
    /\ ~is_pressed
    /\ pressNew = 0 /\ pressMid = 0 /\ releaseNew = 0
    /\ events = <<>> /\ cleanupTimers = 0 /\ watchdogTimers = 0
    /\ \A w \in WorkerIds : wstate[w] # "running"

\* C6: every session returns to Idle with the recorder stopped and the worker
\* slot free, whichever failure occurs: when all the handlers of the sessions
\* begun so far have run, the controller is Idle.
C6_ReturnsToIdle ==
    Quiescent => SessionIdle

\* the release handler's view of the recorder: nothing to hand over
NoSamples == ~recording \/ audio_queue = <<>>

\* C7: a release at which stop_recording returns no samples puts the tray in
\* Idle, creates no worker (transcribe is not called), queues nothing and raises
\* no error notification.
C7_EmptyBufferNoOp ==
    [][ (releaseNew' = releaseNew - 1 /\ NoSamples)
        => /\ tray' = "idle"
           /\ notified' = "none"
           /\ UNCHANGED <<workerVars, loopVars, model>> ]_vars

\* a press and its release were handled with no chunk captured in between
C7_Witness ==
    /\ lastOp = "release_empty"
    /\ capture > 0
    /\ live = 0
    /\ tray = "idle"

C9_RecognitionFailureReported ==
    [][ (events # <<>> /\ events' = Tail(events) /\ Head(events).slot # "quit"
            /\ Head(events).outcome \in {"load_failed", "inference_failed"})
        => /\ notified' = "transcription_failed"
           /\ tray' = "idle"
           /\ lastOp' # "complete_typed" ]_vars


CanonicalOf(word) ==
    {c \in DOMAIN replacements :
        \E i \in 1..Len(replacements[c].value) :
            Lower(replacements[c].value[i]) = Lower(word)}

\* C12: the text delivered to type_text by on_transcription_complete is the
\* transcribed text with every case-insensitive occurrence of a configured
\* variant replaced by its canonical word, the other words unchanged.
C12_CorrectionApplied ==
    (lastOp \in {"complete_typed", "complete_untyped"} /\ dictionary_enabled)
    => /\ Len(typer_text) = Len(transcript)
       /\ \A i \in 1..Len(transcript) :
             IF CanonicalOf(transcript[i]) = {}
             THEN typer_text[i] = transcript[i]
             ELSE typer_text[i] \in CanonicalOf(transcript[i])

\* C13: in the dictionary editor no variation belongs, compared
\* case-insensitively, to the lists of two different correct words.
C13_NoSharedVariation ==
    dialog = "open"
    => \A w1, w2 \in DOMAIN data :
          w1 # w2 =>
             \A i \in 1..Len(data[w1]), j \in 1..Len(data[w2]) :
                 Lower(data[w1][i]) # Lower(data[w2][j])

\* C14: in character mode, when the key simulation raises at a character,
\* type_text calls paste_from_clipboard exactly once and returns what that
\* paste returned: False, with no further attempt, when the paste failed too.
C14_FallbackOnce ==
    [][ (typer_op = "none" /\ typer_op' = "type_text" /\ ~use_clipboard
            /\ typing_raised')
        => /\ pastes' = pastes + 1
           /\ paste_result' \in {"True", "False"}
           /\ result' = paste_result' ]_vars

\* in character mode the simulation raised at the second word and the paste
\* failed after the text had been copied
C14_Witness ==
    /\ typer_op = "type_text" /\ ~use_clipboard
    /\ typing_raised
    /\ Len(typer_text) = 2 /\ keystrokes = SubSeq(typer_text, 1, 1)
    /\ pastes = 1 /\ clipboard = typer_text
    /\ result = "False"

\* C19: type_text and type_text_fast called with an empty text return False,
\* simulate no key and leave the clipboard alone, in both delivery modes.
C19_EmptyTextNoOp ==
    [][ (typer_op = "none" /\ typer_op' # "none" /\ typer_text' = <<>>)
        => /\ result' = "False"
           /\ UNCHANGED <<keystrokes, clipboard, pastes>> ]_vars

\* type_text was called with an empty text in clipboard mode
C19_Witness ==
    /\ typer_op = "type_text" /\ use_clipboard
    /\ typer_text = <<>> /\ transcript = <<>>
    /\ result = "False"
    /\ keystrokes = <<>> /\ clipboard = <<"old">> /\ pastes = 0

\* C15: the audio buffer belongs to the active hotkey session alone: no chunk
\* handed to a transcription worker comes from a capture that a dialog
\* started, and no chunk of a hotkey capture is drained or dropped by a dialog.
C15_BufferExclusive ==
    /\ \A w \in WorkerIds : \A i \in 1..Len(waudio[w]) : waudio[w][i].cap \notin foreign
    /\ stolen = {}

\* the leaf field paths of DEFAULT_CONFIG
DefaultPaths == {<<"version">>, <<"hotkey", "combination">>, <<"hotkey", "enabled">>}

\* a path is present in the items of an object
RECURSIVE HasPath(_, _)
HasPath(items, path) ==
    /\ Head(path) \in DOMAIN items
    /\ Len(path) > 1 => /\ items[Head(path)].is_dict
                        /\ HasPath(items[Head(path)].items, Tail(path))

\* the value at a path that is present
RECURSIVE AtPath(_, _)
AtPath(items, path) ==
    IF Len(path) = 1 THEN items[Head(path)]
    ELSE AtPath(items[Head(path)].items, Tail(path))

\* the items of the stored document, none when there is no readable object
StoredItems ==
    IF config_file.state = "stored" /\ config_file.doc.is_dict
    THEN config_file.doc.items ELSE <<>>

\* C16: after load, every field path of DEFAULT_CONFIG is present in the
\* configuration, with the stored value where the stored document has the
\* field and the default otherwise; fields of the stored document alone are
\* kept; a missing or unreadable document gives exactly the defaults.
C16_MergeOverDefaults ==
    [][ (~config_loaded /\ config_loaded')
        => /\ \A path \in DefaultPaths :
                 /\ HasPath(config', path)
                 /\ AtPath(config', path) =
                        IF HasPath(StoredItems, path) THEN AtPath(StoredItems, path)
                        ELSE AtPath(DEFAULT_CONFIG, path)
           /\ \A key \in DOMAIN StoredItems \ DOMAIN DEFAULT_CONFIG :
                 key \in DOMAIN config' /\ config'[key] = StoredItems[key]
           /\ config_file.state # "stored" => config' = DEFAULT_CONFIG ]_vars

\* the combination is satisfied by the keys the manager tracks as held
Held == is_hotkey_pressed(hotkey_combo, current_keys)

\* C10: the press callback is fired exactly once at each step that takes the
\* held keys from not satisfying the combination to satisfying it, the release
\* callback exactly once at each step back, and nothing is fired at any other
\* key event; fired callbacks alternate, press first.  (pressNew and releaseNew
\* count the callbacks fired: no callback thread runs in SpecHotkey.)
C10_Debounce ==
    /\ [][ /\ pressNew' = pressNew + (IF ~Held /\ Held' THEN 1 ELSE 0)
           /\ releaseNew' = releaseNew + (IF Held /\ ~Held' THEN 1 ELSE 0) ]_vars
    /\ [](pressNew - releaseNew = (IF is_pressed THEN 1 ELSE 0))
    /\ [](is_pressed <=> Held)

\* the combination is held for the second time with the right control key, the
\* other control key and an unrelated key are down as well
C10_Witness ==
    /\ pressNew = 2 /\ releaseNew = 1
    /\ Held
    /\ {"ctrl_l", "ctrl_r", "x"} \subseteq current_keys

\* the two physical keys of a modifier
Sides == {{"ctrl_l", "ctrl_r"}, {"alt_l", "alt_r"}}

\* C17: with the combination ctrl+alt+r registered, the combination counts as
\* held exactly when the left or the right control key is down, the left or
\* the right alt key is down, and r is down; a key event that releases one
\* side of a modifier while its other side stays down fires no release and
\* leaves the combination held.
C17_EitherSide ==
    /\ [](is_pressed <=> /\ \A side \in Sides : side \cap current_keys # {}
                         /\ "r" \in current_keys)
    /\ [][ (/\ is_pressed
            /\ \E side \in Sides : /\ side \subseteq current_keys
                                    /\ side \cap current_keys' # {}
                                    /\ current_keys' # current_keys
                                    /\ current_keys \ current_keys' \subseteq side)
           => is_pressed' /\ releaseNew' = releaseNew ]_vars

\* the combination was held once and is still held, now by the right control
\* key and the left alt key alone
C17_Witness ==
    /\ is_pressed /\ pressNew = 1 /\ releaseNew = 0
    /\ current_keys = {"ctrl_r", "alt_l", "r"}

\* the key names a combination may use beside the modifier names: single
\* characters
SingleChars == {"r", "x"}

\* a combination string is invalid when it is empty or has a part that is
\* neither a modifier name nor a single character
Invalid(parts) ==
    \/ parts = <<"">>
    \/ \E i \in 1..Len(parts) : parts[i] \notin ModifierNames \cup SingleChars

\* C18: a combination string that is invalid is rejected by register_hotkey
\* with ValueError and no listener runs on it: whenever the string last passed
\* is invalid, the call raised and the listener is not started.
C18_InvalidRejected ==
    Invalid(hotkey_string) => raised /\ ~listener

\* C20: a deferred cleanup tears down only the worker of the session that
\* armed it.  The 100 ms timer is armed at a signal of a worker that has
\* returned, and a watchdog that fires while a later watchdog is pending was
\* armed by an earlier session than the worker now referenced: neither clears
\* the reference to a worker that is still transcribing.
C20_OwnSessionOnly ==
    [][ (/\ \/ cleanupTimers' = cleanupTimers - 1
            \/ watchdogTimers' = watchdogTimers - 1 /\ watchdogTimers > 1
         /\ transcription_thread # None
         /\ wstate[transcription_thread] = "running")
        => /\ transcription_thread' = transcription_thread
           /\ transcription_worker' = transcription_worker
           /\ quitReq' = quitReq ]_vars

\* C21: for every press/release pair the press handler's start_recording takes
\* effect before the release handler's stop_recording: once the combination
\* is up and every press and release callback thread has run to its end, the
\* recorder is not recording and no started stream is left open.
C21_PressBeforeRelease ==
    (~is_pressed /\ pressNew = 0 /\ pressMid = 0 /\ releaseNew = 0)
        => (~recording /\ live = 0)

\* C22: stop_recording returns exactly the chunks the capture callback of this
\* capture enqueued, in order.  Every chunk is put by the one stream that
\* start_recording opened for the capture (each started stream delivers every
\* audio frame, so a second live stream puts every frame a second time); the
\* release handler hands the whole queue, in order, to the worker it starts
\* and leaves the queue empty; nothing is put while the recorder is stopped.
C22_DrainedExactly ==
    /\ [][ Len(audio_queue') > Len(audio_queue)
             => live = 1 /\ stream = "started" ]_vars
    /\ [][ (releaseNew' = releaseNew - 1 /\ recording)
             => /\ audio_queue' = <<>>
                /\ transcription_thread' # transcription_thread
                      => /\ waudio'[transcription_thread'] = audio_queue
                         /\ \A i \in 1..Len(audio_queue) :
                               audio_queue[i].cap = capture ]_vars
    /\ [][ ~recording => audio_queue' \in {audio_queue, <<>>} ]_vars

\* C23: a registration stops the previous listener and clears the held keys
\* and the pressed flag before the new listener runs: at most one listener is
\* active, it is the one the manager refers to, and right after a step that
\* registers a combination (another string, or a listener started where none
\* ran) no key is tracked as held and the combination is not pressed.
C23_ReRegistration ==
    /\ [](active_listeners <= 1 /\ (listener <=> active_listeners = 1))
    /\ [][ (hotkey_string' # hotkey_string \/ (~listener /\ listener'))
             => current_keys' = {} /\ ~is_pressed' /\ active_listeners' = 1 ]_vars

\* r is registered and listened for with no key state, after a press of an
\* earlier registration fired whose release never did
C23_Witness ==
    /\ listener /\ active_listeners = 1 /\ hotkey_string = <<"r">>
    /\ current_keys = {} /\ ~is_pressed
    /\ pressNew = 1 /\ releaseNew = 0

\* C24: a recording started by a press is always ended by a release callback.
\* From a state in which the combination is held, the press handler has run
\* and the recorder is recording, every step that leaves the recorder
\* recording leaves the combination held or a release callback to run; a
\* settings change is such a step.
C24_ReleaseNeverLost ==
    [][ (recording /\ is_pressed /\ pressNew = 0 /\ pressMid = 0 /\ releaseNew = 0)
        => (recording' => is_pressed' \/ releaseNew' > 0) ]_vars

\* no handler is under way: every callback thread has run to its end and no
\* signal of a worker waits in the event loop
Settled ==
    /\ pressNew = 0 /\ pressMid = 0 /\ releaseNew = 0
    /\ events = <<>>

\* C25: between handlers the state last shown by the tray matches the session:
\* Idle only while the recorder is not recording and no worker is transcribing,
\* Recording only while the recorder is recording, Transcribing only while a
\* worker is transcribing.
C25_TrayMatchesSession ==
    Settled =>
        /\ tray = "idle" => ~recording /\ \A w \in WorkerIds : wstate[w] # "running"
        /\ tray = "recording" => recording
        /\ tray = "transcribing" => \E w \in WorkerIds : wstate[w] = "running"

\* what the focused application has received: the units typed, and at each
\* Ctrl+V the content of the clipboard
RECURSIVE Delivered(_)
Delivered(keys) ==
    IF keys = <<>> THEN <<>>
    ELSE (IF Head(keys) = "ctrl+v" THEN clipboard ELSE <<Head(keys)>>)
         \o Delivered(Tail(keys))

\* C26: for a text that is not empty, a type_text call that returned True has
\* delivered the text to the focused application exactly once.
C26_DeliveredOnce ==
    (typer_op = "type_text" /\ typer_text # <<>> /\ result = "True")
        => Delivered(keystrokes) = typer_text

\* C27: a transcription is not disturbed by a concurrent change_model: the
\* inference call never finds the model reference None (it runs on the old or
\* on the new model), and concurrent load_model calls construct the model at
\* most once: one construction for the first load and one for each change.
C27_ModelChangeSafe ==
    /\ inference # "None"
    /\ inference \in {"none", "load_failed"} \cup ModelSizes
    /\ constructions <= changes + 1

\* C28: set and the typed setters never change the class-level DEFAULT_CONFIG,
\* so reset_to_defaults, and a load with no settings file, give the
\* hard-coded defaults whatever was set before.  (Only reset_to_defaults
\* changes the configuration and the file in one step.)
C28_DefaultsUntouched ==
    /\ [](class_defaults = DEFAULT_CONFIG)
    /\ [][ (~config_loaded /\ config_loaded' /\ config_file.state = "missing")
             => config' = DEFAULT_CONFIG ]_vars
    /\ [][ (config_loaded /\ config' # config /\ config_file' # config_file)
             => config' = DEFAULT_CONFIG ]_vars

\* C29: in the AudioRecorder an input stream is held exactly when recording is
\* True: whenever no start_recording call is under way, self.stream is set if
\* and only if the flag is; in particular a start that failed leaves no
\* stream behind.
C29_StreamIffRecording ==
    pressMid = 0 => (recording <=> stream # "none")

\* C30: in the editor opened on an empty table, after any additions, the
\* correct words are unique without regard to case and no variation equals,
\* without regard to case, a correct word of the table, its own or another's.
C30_WordsAndVariationsApart ==
    (dialog = "open" /\ replacements = <<>>)
    => /\ \A w1, w2 \in DOMAIN data : w1 # w2 => Lower(w1) # Lower(w2)
       /\ \A w, c \in DOMAIN data :
             \A i \in 1..Len(data[w]) : Lower(data[w][i]) # Lower(c)

====
